---- MODULE Spec2Model ----
(***************************************************************************)
(* HemoclastOnline backend: the WebSocket ConnectionManager                *)
(* (app/websocket/connection_manager.py) and the websocket endpoint with   *)
(* its game-message handler (app/main.py).                                 *)
(*                                                                         *)
(* The specifications share the same translation of the code:              *)
(*   SpecMgr   the ConnectionManager object driven by a sequence of calls  *)
(*             of its public methods, each call running to completion;     *)
(*   Spec      the server: one websocket_endpoint coroutine per socket on  *)
(*             one asyncio event loop, interleaving at every await;        *)
(*   SpecFresh the server when no two connections share a client id;       *)
(*   SpecData  the server under spawn and move frames of varied payloads.  *)
(***************************************************************************)
EXTENDS Integers, Sequences, FiniteSets, TLC

\* ------------------------------------------------------------------ bounds
NSock == 2
Socks == 1..NSock
ClientIds == {"A", "B"}
Guilds == {"g1"}

\* A message payload (a Python dict with string keys) is a function from
\* its keys to values.
EmptyDict == [k \in {} |-> "v1"]
NoId == "-"
\* The payloads the server's clients send.
SpawnData == {[key \in {"n"} |-> "v1"]}
MoveData == {[key \in {"x"} |-> "v1"]}
ChatData == {[key \in {"t"} |-> "v1"]}
\* Frames the server reads in one run, over all sockets.
MaxFrames == 2

VARIABLES active_connections, player_data, guild_channels, city_presence,
          sock, task, ev, frames, inbox

mgrvars == <<active_connections, player_data, guild_channels, city_presence>>
vars == <<active_connections, player_data, guild_channels, city_presence,
          sock, task, ev, frames, inbox>>

\* ------------------------------------------------- Python dicts and lists
\* A dict is a sequence of [k, v] records in insertion order, keys distinct.
DictKeys(d) == {d[i].k : i \in 1..Len(d)}
DictHas(d, key) == key \in DictKeys(d)
DictGet(d, key) == (CHOOSE i \in 1..Len(d) : d[i].k = key)
DictVal(d, key) == d[DictGet(d, key)].v
\* d[key] = val: an existing key keeps its position, a new one is appended.
DictSet(d, key, val) ==
    IF DictHas(d, key)
    THEN [i \in 1..Len(d) |-> IF d[i].k = key THEN [k |-> key, v |-> val] ELSE d[i]]
    ELSE Append(d, [k |-> key, v |-> val])
SeqDrop(s, i) == [j \in 1..(Len(s) - 1) |-> IF j < i THEN s[j] ELSE s[j + 1]]
\* del d[key], for a key that is present.
DictDel(d, key) == SeqDrop(d, DictGet(d, key))
\* x in l, l.remove(x) (the first occurrence), for Python lists.
ListHas(l, x) == \E i \in 1..Len(l) : l[i] = x
ListRemove(l, x) ==
    SeqDrop(l, CHOOSE i \in 1..Len(l) : l[i] = x /\ \A j \in 1..(i - 1) : l[j] # x)
\* dict.update / {**a, **b}: shallow key-wise overwrite.
Merge(p, q) ==
    [key \in (DOMAIN p) \cup (DOMAIN q) |-> IF key \in DOMAIN q THEN q[key] ELSE p[key]]

\* The manager's four containers as one value.
Mgr == [ac |-> active_connections, pd |-> player_data,
        gc |-> guild_channels, cp |-> city_presence]

\* ---------------------------------------------- ConnectionManager methods
\* connect, after the await of websocket.accept().
Register(ac, ws, id) == DictSet(ac, id, ws)

DisconnectKeepsCity(m, id) ==
    [ac |-> IF DictHas(m.ac, id) THEN DictDel(m.ac, id) ELSE m.ac,
     pd |-> IF DictHas(m.pd, id) THEN DictDel(m.pd, id) ELSE m.pd,
     gc |-> [i \in 1..Len(m.gc) |->
               [k |-> m.gc[i].k,
                v |-> IF ListHas(m.gc[i].v, id) THEN ListRemove(m.gc[i].v, id)
                      ELSE m.gc[i].v]],
     cp |-> m.cp,
     err |-> FALSE]
DisconnectEmptiesChannels(m, id) ==
    [ac |-> IF DictHas(m.ac, id) THEN DictDel(m.ac, id) ELSE m.ac,
     pd |-> IF DictHas(m.pd, id) THEN DictDel(m.pd, id) ELSE m.pd,
     gc |-> [i \in 1..Len(m.gc) |->
               [k |-> m.gc[i].k,
                v |-> IF ListHas(m.gc[i].v, id) THEN <<>> ELSE m.gc[i].v]],
     cp |-> IF ListHas(m.cp, id) THEN ListRemove(m.cp, id) ELSE m.cp,
     err |-> FALSE]
DisconnectUnguarded(m, id) ==
    IF DictHas(m.ac, id)
    THEN DisconnectKeepsCity([m EXCEPT !.cp = IF ListHas(m.cp, id)
                                              THEN ListRemove(m.cp, id) ELSE m.cp], id)
    ELSE [ac |-> m.ac, pd |-> m.pd, gc |-> m.gc, cp |-> m.cp, err |-> TRUE]
\* disconnect(client_id): every removal is guarded, so nothing is raised.
Disconnect(m, id) ==
    [ac |-> IF DictHas(m.ac, id) THEN DictDel(m.ac, id) ELSE m.ac,
     pd |-> IF DictHas(m.pd, id) THEN DictDel(m.pd, id) ELSE m.pd,
     gc |-> [i \in 1..Len(m.gc) |->
               [k |-> m.gc[i].k,
                v |-> IF ListHas(m.gc[i].v, id) THEN ListRemove(m.gc[i].v, id)
                      ELSE m.gc[i].v]],
     cp |-> IF ListHas(m.cp, id) THEN ListRemove(m.cp, id) ELSE m.cp,
     err |-> FALSE]

JoinGuildChannel(gc, id, g) ==
    LET gc1 == IF DictHas(gc, g) THEN gc ELSE DictSet(gc, g, <<>>)
    IN  IF ListHas(DictVal(gc1, g), id) THEN gc1
        ELSE DictSet(gc1, g, Append(DictVal(gc1, g), id))
LeaveGuildChannel(gc, id, g) ==
    IF DictHas(gc, g) /\ ListHas(DictVal(gc, g), id)
    THEN DictSet(gc, g, ListRemove(DictVal(gc, g), id))
    ELSE gc
JoinCity(cp, id) == IF ListHas(cp, id) THEN cp ELSE Append(cp, id)
LeaveCity(cp, id) == IF ListHas(cp, id) THEN ListRemove(cp, id) ELSE cp
StorePlayerDataMerges(pd, id, data) ==
    IF DictHas(pd, id) THEN DictSet(pd, id, Merge(DictVal(pd, id), data))
    ELSE DictSet(pd, id, data)
StorePlayerData(pd, id, data) == DictSet(pd, id, data)

\* get_all_players(): a shallow copy; the payload dicts stay shared with
\* player_data, so each copied entry is an alias, live until player_data
\* rebinds or deletes that key.
GetAllPlayers(pd) ==
    [i \in 1..Len(pd) |-> [k |-> pd[i].k, a |-> [live |-> TRUE, val |-> pd[i].v]]]
\* The dict an alias denotes, read now.
AliasVal(pd, id, a) == IF a.live /\ DictHas(pd, id) THEN DictVal(pd, id) ELSE a.val

\* {"type": t, "data": {"client_id": id, **data}}
Envelope(t, id, data) ==
    [type |-> t, data |-> Merge([key \in {"client_id"} |-> id], data)]
\* response_type (lines 190, 226).
JoinedTypeFlat(mt) == "player_joined"
JoinedType(mt) == IF mt = "player_spawn_3d" THEN "player_joined_3d" ELSE "player_joined"
MovedType(mt) == IF mt = "player_move_3d" THEN "player_moved_3d" ELSE "player_moved"
\* f"Client {client_id}: {data}"
LegacyText(id) == [type |-> "text", data |-> [key \in {"client_id"} |-> id]]
About(msg) == msg.data["client_id"]

\* ----------------------------------------------------- broadcast loops
\* broadcast / broadcast_to_others visit the entries of connections_copy in
\* order. An entry is written to when it is not the excluded id and its id is
\* still a key of active_connections (lines 67, 82).
Eligible(ac, e, excl) == e.k # excl /\ DictHas(ac, e.k)
\* Position in rest of the next entry that will be written to, 0 if none.
NextTarget(ac, rest, excl) ==
    IF \E i \in 1..Len(rest) : Eligible(ac, rest[i], excl)
    THEN CHOOSE i \in 1..Len(rest) :
            /\ Eligible(ac, rest[i], excl)
            /\ \A j \in 1..(i - 1) : ~Eligible(ac, rest[j], excl)
    ELSE 0
\* The except branch (lines 70-74, 85-89): only the registry entry goes.
Evict(m, id) ==
    [ac |-> IF DictHas(m.ac, id) THEN DictDel(m.ac, id) ELSE m.ac,
     pd |-> m.pd, gc |-> m.gc, cp |-> m.cp]

\* ------------------------------------------------ coroutine state (Spec)
\* task[s] is the websocket_endpoint coroutine of socket s. pc names the
\* await it is suspended at:
\*   idle     the connection has not arrived
\*   recv     await websocket.receive_text()
\*   catchup  send_personal_message: await websocket.send_text (catch-up loop)
\*   bcast    broadcast / broadcast_to_others: await websocket.send_text
\*   ended    websocket_endpoint returned
\*   crashed  an exception left websocket_endpoint
\*   ret      (within a step only) the current call has returned
\*   room     broadcast_to_city / broadcast_to_guild: await websocket.send_text
\*            inside send_personal_message; room names the list iterated and
\*            idx is the position the list iterator fetches next
\* inbox[s] is what the peer of socket s has been sent, in order; it is kept
\* only by the steps that say so.
\* cu, own, cur, rest, excl, msg are the locals of the suspended frames, mt
\* is the type of the message being handled (message_type);
\* kind and after say which call is running and where it returns to; snap,
\* sent, start and g record the call for the properties: the registry copy
\* iterated, the writes made so far, the registry and presence store when the
\* message arrived, and whether the presence being sent was, when the message
\* was built, that of a registered client (reg) and the stored one (fresh).
NoAlias == [live |-> FALSE, val |-> EmptyDict]
NoMsg == [type |-> "none", data |-> EmptyDict]
NoEntry == [k |-> NoId, v |-> 0]
IdleTask ==
    [pc |-> "idle", kind |-> "none", mt |-> "none", cu |-> <<>>, own |-> NoAlias, cur |-> NoEntry,
     rest |-> <<>>, excl |-> NoId, msg |-> NoMsg, snap |-> <<>>, sent |-> <<>>,
     start |-> [ac |-> <<>>, pd |-> <<>>, gc |-> <<>>, cp |-> <<>>], g |-> [reg |-> FALSE, fresh |-> FALSE],
     after |-> "recv", room |-> NoId, idx |-> 0]
AtPc(p) == [IdleTask EXCEPT !.pc = p]

\* send_text succeeds on a socket whose peer is still there.
WriteOk(ws) == sock[ws].st = "open"
\* await send_text on a socket whose peer has stopped reading (st =
\* "stalled") stays suspended: it neither returns nor raises.
Completes(ws) == sock[ws].st # "stalled"
Cid(s) == sock[s].cid

\* connections_copy = dict(self.active_connections), then the loop up to its
\* first await; pc = "ret" when the loop ends without writing.
LoopFrom(t, ac, rest) ==
    LET i == NextTarget(ac, rest, t.excl)
    IN  IF i = 0 THEN [t EXCEPT !.pc = "ret", !.cur = NoEntry, !.rest = <<>>]
        ELSE [t EXCEPT !.pc = "bcast", !.cur = rest[i],
                       !.rest = SubSeq(rest, i + 1, Len(rest))]
BeginBroadcast(t, ac, m, ex) ==
    LoopFrom([t EXCEPT !.msg = m, !.excl = ex, !.snap = ac], ac, ac)

\* Lines 208-216: the announcement, built from the handler's player_data
\* local, then broadcast_to_others.
Announce(t, m, id) ==
    BeginBroadcast(t, m.ac,
                   Envelope(JoinedType(t.mt), id, AliasVal(m.pd, id, t.own)), id)

\* Lines 196-205, from the top of a loop iteration to the await inside
\* send_personal_message; without a registry entry for id, the calls return
\* at once (line 56) and the loop runs through.
CatchUp(t, m, id) ==
    IF t.cu # <<>> /\ DictHas(m.ac, id)
    THEN LET e == Head(t.cu)
         IN  [t EXCEPT !.pc = "catchup", !.cu = Tail(t.cu),
                       !.cur = [k |-> id, v |-> DictVal(m.ac, id)],
                       !.msg = Envelope(JoinedType(t.mt), e.k, AliasVal(m.pd, e.k, e.a)),
                       !.g = [reg |-> DictHas(m.ac, e.k),
                              fresh |-> /\ DictHas(m.pd, e.k)
                                        /\ DictVal(m.pd, e.k) = AliasVal(m.pd, e.k, e.a)]]
    ELSE Announce([t EXCEPT !.cu = <<>>], m, id)

\* player_data[id] is rebound or deleted: the dict it held no longer changes,
\* and every alias of it keeps the value it has now.
Freeze(a, pd, id) ==
    IF a.live /\ DictHas(pd, id) THEN [live |-> FALSE, val |-> DictVal(pd, id)] ELSE a
Detach(tk, pd, id) ==
    [s \in Socks |->
        [tk[s] EXCEPT
            !.cu = [i \in 1..Len(tk[s].cu) |->
                      IF tk[s].cu[i].k = id
                      THEN [k |-> id, a |-> Freeze(tk[s].cu[i].a, pd, id)]
                      ELSE tk[s].cu[i]],
            !.own = IF Cid(s) = id THEN Freeze(tk[s].own, pd, id) ELSE tk[s].own]]

\* What a call that has ended reports.
Report(s, t, r) ==
    [op |-> "handled", kind |-> t.kind, mt |-> t.mt, sock |-> s, id |-> Cid(s),
     excl |-> t.excl,
     snap |-> t.snap, sent |-> t.sent, start |-> t.start, raised |-> r]
\* The coroutine after a step: a returned call goes back to receive_text
\* (line 157) or, after the player_left broadcast, out of the endpoint.
Settle(t) == IF t.pc = "ret" THEN AtPc(t.after) ELSE t
Events(s, t) == IF t.pc = "ret" THEN <<Report(s, t, "no")>> ELSE <<>>

SetMgr(m) ==
    /\ active_connections' = m.ac
    /\ player_data' = m.pd
    /\ guild_channels' = m.gc
    /\ city_presence' = m.cp

Wrote(t, phase, okay) ==
    [t EXCEPT !.sent = Append(@, [to |-> t.cur.v, msg |-> t.msg, ph |-> phase,
                                  ok |-> okay, g |-> t.g])]
\* The framework closes the socket of an endpoint that is over.
Over(t) == t.pc \in {"ended", "crashed"}
CloseIfOver(s, t) ==
    sock' = IF Over(t) THEN [sock EXCEPT ![s].st = "gone"] ELSE sock

Init ==
    /\ active_connections = <<>>
    /\ player_data = <<>>
    /\ guild_channels = <<>>
    /\ city_presence = <<>>
    /\ sock = [s \in Socks |-> [cid |-> NoId, st |-> "none"]]
    /\ task = [s \in Socks |-> IdleTask]
    /\ ev = <<>>
    /\ frames = 0
    /\ inbox = [s \in Socks |-> <<>>]

\* ------------------------------------------------------ the server (Spec)
\* websocket_endpoint is entered for a validated client id (lines 107-152)
\* and runs connect (line 154, lines 28-32) up to its first receive_text.
\* Nothing can address the socket before line 31, so the await of
\* websocket.accept() is not a separate step. Sockets are taken in order,
\* and client ids in order of first use.
Connect(s, id) ==
    /\ task[s].pc = "idle"
    /\ \A u \in Socks : u < s => task[u].pc # "idle"
    /\ id = "B" => \E u \in Socks : sock[u].cid = "A"
    /\ sock' = [sock EXCEPT ![s] = [cid |-> id, st |-> "open"]]
    /\ active_connections' = Register(active_connections, s, id)
    /\ task' = [task EXCEPT ![s] = AtPc("recv")]
    /\ ev' = <<>>
    /\ UNCHANGED <<player_data, guild_channels, city_presence, frames, inbox>>

\* The peer goes away: writes to the socket fail from now on, and its
\* receive_text raises WebSocketDisconnect.
PeerClose(s) ==
    /\ task[s].pc # "idle"
    /\ sock[s].st = "open"
    /\ sock' = [sock EXCEPT ![s].st = "gone"]
    /\ ev' = <<>>
    /\ UNCHANGED <<mgrvars, task, frames, inbox>>

Receiving(s) ==
    /\ task[s].pc = "recv"
    /\ sock[s].st = "open"
    /\ frames < MaxFrames
    /\ frames' = frames + 1
    /\ UNCHANGED inbox

\* The step a coroutine ends in state t1 with manager m and events e.
Finish(s, tk, t1, m, e) ==
    /\ task' = [tk EXCEPT ![s] = Settle(t1)]
    /\ ev' = e \o Events(s, t1)
    /\ SetMgr(m)
    /\ CloseIfOver(s, Settle(t1))

\* handle_game_message, the spawn branch (lines 184-217) for a message of
\* type mt.
Spawn(s, mt, data) ==
    /\ Receiving(s)
    /\ LET id == Cid(s)
           m == [Mgr EXCEPT !.pd = StorePlayerData(player_data, id, data)]
           t0 == [AtPc("recv") EXCEPT
                    !.kind = "spawn",
                    !.mt = mt,
                    !.own = [live |-> TRUE, val |-> data],
                    !.cu = SelectSeq(GetAllPlayers(m.pd), LAMBDA e : e.k # id),
                    !.start = Mgr]
       IN  Finish(s, Detach(task, player_data, id), CatchUp(t0, m, id), m, <<>>)
RecvSpawn(s, data) == Spawn(s, "player_spawn", data)
RecvSpawn3d(s, data) == Spawn(s, "player_spawn_3d", data)

RecvMoveReplaces(s, data) ==
    /\ Receiving(s)
    /\ LET id == Cid(s)
           m == [Mgr EXCEPT !.pd =
                    IF DictHas(player_data, id)
                    THEN DictSet(player_data, id, data)
                    ELSE player_data]
           t0 == [AtPc("recv") EXCEPT !.kind = "move", !.mt = "player_move"]
       IN  Finish(s, task,
                  BeginBroadcast(t0, m.ac, Envelope("player_moved", id, data), id),
                  m, <<>>)
\* handle_game_message, the move branch (lines 219-236) for a message of
\* type mt.
Move(s, mt, data) ==
    /\ Receiving(s)
    /\ LET id == Cid(s)
           m == [Mgr EXCEPT !.pd =
                    IF DictHas(player_data, id)
                    THEN DictSet(player_data, id, Merge(DictVal(player_data, id), data))
                    ELSE player_data]
           t0 == [AtPc("recv") EXCEPT !.kind = "move", !.mt = mt]
       IN  Finish(s, task,
                  BeginBroadcast(t0, m.ac, Envelope(MovedType(mt), id, data), id),
                  m, <<>>)
RecvMove3d(s, data) == Move(s, "player_move_3d", data)
RecvMove(s, data) == Move(s, "player_move", data)

\* handle_game_message, chat_message (lines 242-251).
RecvChat(s, data) ==
    /\ Receiving(s)
    /\ LET t0 == [AtPc("recv") EXCEPT !.kind = "chat"]
       IN  Finish(s, task,
                  BeginBroadcast(t0, active_connections,
                                 Envelope("chat_message", Cid(s), data), NoId),
                  Mgr, <<>>)

RecvTextRaises(s) ==
    /\ Receiving(s)
    /\ Finish(s, task, AtPc("crashed"), Mgr,
              <<Report(s, [AtPc("recv") EXCEPT !.kind = "text"], "err")>>)
\* A frame that is not JSON (lines 163-165).
RecvText(s) ==
    /\ Receiving(s)
    /\ LET t0 == [AtPc("recv") EXCEPT !.kind = "text"]
       IN  Finish(s, task,
                  BeginBroadcast(t0, active_connections, LegacyText(Cid(s)), NoId),
                  Mgr, <<>>)

RecvOtherCleansUp(s) ==
    /\ Receiving(s)
    /\ LET d == Disconnect(Mgr, Cid(s))
           m == [ac |-> d.ac, pd |-> d.pd, gc |-> d.gc, cp |-> d.cp]
           t0 == [AtPc("recv") EXCEPT !.kind = "other", !.pc = "ret"]
       IN  Finish(s, Detach(task, player_data, Cid(s)), t0, m, <<>>)
\* player_disconnect and unknown types (lines 238-254).
RecvOther(s) ==
    /\ Receiving(s)
    /\ LET t0 == [AtPc("recv") EXCEPT !.kind = "other", !.pc = "ret"]
       IN  Finish(s, task, t0, Mgr, <<>>)

\* A frame that is JSON but no envelope: the top-level value is not an object
\* and message.get raises AttributeError (line 182), or the data of a move or
\* chat message is not a mapping and update or ** raises TypeError (lines
\* 223, 233, 248) before anything is stored or sent. Neither is caught at
\* line 163 or 167: the exception leaves websocket_endpoint.
RecvMalformed(s) ==
    /\ Receiving(s)
    /\ Finish(s, task, AtPc("crashed"), Mgr,
              <<Report(s, [AtPc("recv") EXCEPT !.kind = "malformed"], "err")>>)

\* except WebSocketDisconnect (lines 167-178), entered by coroutine s whose
\* call in state t ended as r: disconnect, then the player_left broadcast.
Teardown(s, t, r) ==
    LET id == Cid(s)
        d == Disconnect(Mgr, id)
        m == [ac |-> d.ac, pd |-> d.pd, gc |-> d.gc, cp |-> d.cp]
        t0 == [AtPc("recv") EXCEPT !.kind = "left", !.after = "ended"]
    IN  Finish(s, Detach(task, player_data, id),
               BeginBroadcast(t0, m.ac, Envelope("player_left", id, EmptyDict), NoId),
               m,
               <<Report(s, t, r),
                 [Report(s, [t0 EXCEPT !.start = Mgr], IF d.err THEN "err" ELSE "no")
                     EXCEPT !.op = "disconnect"]>>)

\* receive_text raises WebSocketDisconnect.
RecvClose(s) ==
    /\ task[s].pc = "recv"
    /\ sock[s].st = "gone"
    /\ UNCHANGED <<frames, inbox>>
    /\ Teardown(s, [AtPc("recv") EXCEPT !.kind = "recv"], "wsd")

\* What a failed send_text raises depends on the Starlette release: a
\* WebSocketDisconnect, or another exception (RuntimeError, OSError).
SendErrors == {"wsd", "err"}

\* send_personal_message (lines 54-58) resumes from its await. Nothing
\* catches a failed write there or in handle_game_message: it reaches
\* websocket_endpoint, whose only handler is except WebSocketDisconnect.
CatchupWrite(s) ==
    /\ task[s].pc = "catchup"
    /\ Completes(task[s].cur.v)
    /\ UNCHANGED frames
    /\ LET t == task[s]
       IN  \/ /\ WriteOk(t.cur.v)
              /\ Finish(s, task, CatchUp(Wrote(t, "cu", TRUE), Mgr, Cid(s)), Mgr, <<>>)
           \/ /\ ~WriteOk(t.cur.v)
              /\ \E x \in SendErrors :
                    IF x = "wsd"
                    THEN Teardown(s, Wrote(t, "cu", FALSE), x)
                    ELSE Finish(s, task, AtPc("crashed"), Mgr,
                                <<Report(s, Wrote(t, "cu", FALSE), x)>>)
CatchupSend(s) == CatchupWrite(s) /\ UNCHANGED inbox

BcastWriteUncaught(s) ==
    /\ task[s].pc = "bcast"
    /\ sock[task[s].cur.v].st # "stalled"
    /\ UNCHANGED frames
    /\ LET t == task[s]
           okay == WriteOk(t.cur.v)
       IN  IF okay
           THEN Finish(s, task, LoopFrom(Wrote(t, "bc", TRUE), active_connections, t.rest),
                       Mgr, <<>>)
           ELSE Finish(s, task, AtPc("crashed"), Mgr,
                       <<Report(s, Wrote(t, "bc", FALSE), "err")>>)
BroadcastStopsAtFailure(t, m, okay) ==
    IF okay THEN LoopFrom(t, m.ac, t.rest)
    ELSE [t EXCEPT !.pc = "ret", !.cur = NoEntry, !.rest = <<>>]
\* The broadcast loop after the write to t.cur ended (okay or not) and the
\* registry became m.ac: on to the next entry written to.
BroadcastResume(t, m, okay) == LoopFrom(t, m.ac, t.rest)

\* broadcast / broadcast_to_others resume from their await (lines 65-74,
\* 81-89): a failed write is caught and the entry evicted.
BcastWrite(s) ==
    /\ task[s].pc = "bcast"
    /\ Completes(task[s].cur.v)
    /\ UNCHANGED frames
    /\ LET t == task[s]
           okay == WriteOk(t.cur.v)
           m == IF okay THEN Mgr ELSE Evict(Mgr, t.cur.k)
       IN  Finish(s, task, BroadcastResume(Wrote(t, "bc", okay), m, okay), m, <<>>)
BcastSend(s) == BcastWrite(s) /\ UNCHANGED inbox

Next ==
    \/ \E s \in Socks, id \in ClientIds : Connect(s, id)
    \/ \E s \in Socks : PeerClose(s)
    \/ \E s \in Socks, data \in SpawnData : RecvSpawn(s, data)
    \/ \E s \in Socks, data \in MoveData : RecvMove(s, data)
    \/ \E s \in Socks, data \in ChatData : RecvChat(s, data)
    \/ \E s \in Socks : RecvText(s)
    \/ \E s \in Socks : RecvOther(s)
    \/ \E s \in Socks : RecvMalformed(s)
    \/ \E s \in Socks : RecvClose(s)
    \/ \E s \in Socks : CatchupSend(s)
    \/ \E s \in Socks : BcastSend(s)

Spec == Init /\ [][Next]_vars

\* The server when every connection brings a client id of its own.
ConnectFresh(s, id) ==
    /\ \A u \in Socks : sock[u].cid # id
    /\ Connect(s, id)
NextFresh ==
    \/ \E s \in Socks, id \in ClientIds : ConnectFresh(s, id)
    \/ \E s \in Socks : PeerClose(s)
    \/ \E s \in Socks, data \in SpawnData : RecvSpawn(s, data)
    \/ \E s \in Socks, data \in MoveData : RecvMove(s, data)
    \/ \E s \in Socks, data \in ChatData : RecvChat(s, data)
    \/ \E s \in Socks : RecvText(s)
    \/ \E s \in Socks : RecvOther(s)
    \/ \E s \in Socks : RecvMalformed(s)
    \/ \E s \in Socks : RecvClose(s)
    \/ \E s \in Socks : CatchupSend(s)
    \/ \E s \in Socks : BcastSend(s)
SpecFresh == Init /\ [][NextFresh]_vars

\* The server when spawn and move payloads differ in their keys and values
\* (the empty payload included) and no peer goes away; chat and text frames,
\* which never touch player_data, are left out.
RichData ==
    {EmptyDict,
     [key \in {"n"} |-> "v1"],
     [key \in {"x"} |-> "v2"],
     [key \in {"n", "x"} |-> IF key = "n" THEN "v2" ELSE "v1"]}
NextData ==
    \/ \E s \in Socks, id \in ClientIds : Connect(s, id)
    \/ \E s \in Socks, data \in RichData : RecvSpawn(s, data)
    \/ \E s \in Socks, data \in RichData : RecvMove(s, data)
    \/ \E s \in Socks : CatchupSend(s)
    \/ \E s \in Socks : BcastSend(s)
SpecData == Init /\ [][NextData]_vars

\* The server under spawn and move messages of both variants, no peer going
\* away.
NextKinds ==
    \/ \E s \in Socks, id \in ClientIds : Connect(s, id)
    \/ \E s \in Socks, data \in SpawnData : RecvSpawn(s, data)
    \/ \E s \in Socks, data \in SpawnData : RecvSpawn3d(s, data)
    \/ \E s \in Socks, data \in MoveData : RecvMove(s, data)
    \/ \E s \in Socks, data \in MoveData : RecvMove3d(s, data)
    \/ \E s \in Socks : CatchupSend(s)
    \/ \E s \in Socks : BcastSend(s)
SpecKinds == Init /\ [][NextKinds]_vars

\* The server when a payload may itself carry a client_id key, naming any
\* client; no peer goes away.
ForgedData == {[key \in {"client_id"} |-> id] : id \in ClientIds} \cup SpawnData
NextForged ==
    \/ \E s \in Socks, id \in ClientIds : Connect(s, id)
    \/ \E s \in Socks, data \in ForgedData : RecvSpawn(s, data)
    \/ \E s \in Socks, data \in ForgedData : RecvMove(s, data)
    \/ \E s \in Socks, data \in ForgedData : RecvChat(s, data)
    \/ \E s \in Socks : CatchupSend(s)
    \/ \E s \in Socks : BcastSend(s)
SpecForged == Init /\ [][NextForged]_vars

\* The server with what each peer is sent kept in inbox: send_text hands the
\* messages written to one socket to its peer in the order of the writes.
DeliverFirst(box, ws, e) == [box EXCEPT ![ws] = <<e>> \o @]
Deliver(box, ws, e) == [box EXCEPT ![ws] = Append(@, e)]
Logged(s) ==
    inbox' = IF WriteOk(task[s].cur.v)
             THEN Deliver(inbox, task[s].cur.v, [from |-> s, msg |-> task[s].msg])
             ELSE inbox
CatchupLogged(s) == CatchupWrite(s) /\ Logged(s)
BcastLogged(s) == BcastWrite(s) /\ Logged(s)
\* The payload of the n-th frame the server reads: each message is told from
\* the others by its number.
SeqData(n) == [key \in {"seq"} |-> n]
\* Numbered move and chat messages; peers may go away, no endpoint is torn
\* down.
NextLog ==
    \/ \E s \in Socks, id \in ClientIds : Connect(s, id)
    \/ \E s \in Socks : PeerClose(s)
    \/ \E s \in Socks : RecvMove(s, SeqData(frames + 1))
    \/ \E s \in Socks : RecvChat(s, SeqData(frames + 1))
    \/ \E s \in Socks : BcastLogged(s)
SpecLog == Init /\ [][NextLog]_vars
\* The peer stops reading and its connection stays up: the transport's
\* buffers fill and writes to the socket stay suspended.
PeerStall(s) ==
    /\ task[s].pc # "idle"
    /\ sock[s].st = "open"
    /\ sock' = [sock EXCEPT ![s].st = "stalled"]
    /\ ev' = <<>>
    /\ UNCHANGED <<mgrvars, task, frames, inbox>>
\* Moves and chat messages among clients some of which stop reading. The
\* event loop resumes every coroutine whose awaited write has ended.
NextStall ==
    \/ \E s \in Socks, id \in ClientIds : ConnectFresh(s, id)
    \/ \E s \in Socks : PeerStall(s)
    \/ \E s \in Socks, data \in MoveData : RecvMove(s, data)
    \/ \E s \in Socks, data \in ChatData : RecvChat(s, data)
    \/ \E s \in Socks : BcastSend(s)
SpecStall ==
    Init /\ [][NextStall]_vars /\ \A s \in Socks : WF_vars(BcastSend(s))
\* Spawns and departures of clients that each connect once.
NextGhost ==
    \/ \E s \in Socks, id \in ClientIds : ConnectFresh(s, id)
    \/ \E s \in Socks : PeerClose(s)
    \/ \E s \in Socks, data \in SpawnData : RecvSpawn(s, data)
    \/ \E s \in Socks : RecvClose(s)
    \/ \E s \in Socks : CatchupLogged(s)
    \/ \E s \in Socks : BcastLogged(s)
SpecGhost == Init /\ [][NextGhost]_vars

\* --------------------------------- the manager under direct calls (SpecMgr)
\* One caller, one call at a time, each run to its return. Sockets are
\* handed out in order; joins and store_player_data are made for registered
\* clients only, as the endpoint does for the client it serves.
StoreData == SpawnData

\* broadcast / broadcast_to_others from a suspended write to the return.
RECURSIVE RunLoop(_, _)
RunLoop(t, m) ==
    IF t.pc # "bcast" THEN [t |-> t, m |-> m]
    ELSE LET okay == WriteOk(t.cur.v)
             m1 == IF okay THEN m ELSE Evict(m, t.cur.k)
         IN  RunLoop(BroadcastResume(Wrote(t, "bc", okay), m1, okay), m1)

Called(name, cid, t, r) ==
    [op |-> name, kind |-> t.kind, mt |-> t.mt, sock |-> 0, id |-> cid,
     excl |-> t.excl,
     snap |-> t.snap, sent |-> t.sent, start |-> t.start, raised |-> r]
Quiet == UNCHANGED <<task, frames, inbox>>

MgrConnect(ws, id) ==
    /\ sock[ws].st = "none"
    /\ \A u \in Socks : u < ws => sock[u].st # "none"
    /\ id = "B" => \E u \in Socks : sock[u].cid = "A"
    /\ sock' = [sock EXCEPT ![ws] = [cid |-> id, st |-> "open"]]
    /\ active_connections' = Register(active_connections, ws, id)
    /\ ev' = <<Called("connect", id, IdleTask, "no")>>
    /\ UNCHANGED <<player_data, guild_channels, city_presence>>
    /\ Quiet

\* Writes to ws fail from now on.
MgrBreak(ws) ==
    /\ sock[ws].st = "open"
    /\ sock' = [sock EXCEPT ![ws].st = "gone"]
    /\ ev' = <<>>
    /\ UNCHANGED mgrvars
    /\ Quiet

MgrDisconnect(id) ==
    /\ LET d == Disconnect(Mgr, id)
       IN  /\ SetMgr(d)
           /\ ev' = <<Called("disconnect", id, [IdleTask EXCEPT !.start = Mgr],
                             IF d.err THEN "err" ELSE "no")>>
    /\ UNCHANGED sock
    /\ Quiet

MgrJoinGuild(id, g) ==
    /\ DictHas(active_connections, id)
    /\ guild_channels' = JoinGuildChannel(guild_channels, id, g)
    /\ ev' = <<Called("join_guild_channel", id, IdleTask, "no")>>
    /\ UNCHANGED <<active_connections, player_data, city_presence, sock>>
    /\ Quiet

MgrLeaveGuild(id, g) ==
    /\ guild_channels' = LeaveGuildChannel(guild_channels, id, g)
    /\ ev' = <<Called("leave_guild_channel", id, IdleTask, "no")>>
    /\ UNCHANGED <<active_connections, player_data, city_presence, sock>>
    /\ Quiet

MgrJoinCity(id) ==
    /\ DictHas(active_connections, id)
    /\ city_presence' = JoinCity(city_presence, id)
    /\ ev' = <<Called("join_city", id, IdleTask, "no")>>
    /\ UNCHANGED <<active_connections, player_data, guild_channels, sock>>
    /\ Quiet

MgrLeaveCity(id) ==
    /\ city_presence' = LeaveCity(city_presence, id)
    /\ ev' = <<Called("leave_city", id, IdleTask, "no")>>
    /\ UNCHANGED <<active_connections, player_data, guild_channels, sock>>
    /\ Quiet

MgrStore(id, data) ==
    /\ DictHas(active_connections, id)
    /\ player_data' = StorePlayerData(player_data, id, data)
    /\ ev' = <<Called("store_player_data", id, IdleTask, "no")>>
    /\ UNCHANGED <<active_connections, guild_channels, city_presence, sock>>
    /\ Quiet

\* send_personal_message (lines 54-58): no handler around the write.
SendPersonalMessage(ac, id) ==
    IF DictHas(ac, id)
    THEN LET t == [IdleTask EXCEPT !.cur = [k |-> id, v |-> DictVal(ac, id)],
                                   !.msg = [type |-> "personal", data |-> EmptyDict]]
         IN  IF WriteOk(t.cur.v) THEN [t |-> Wrote(t, "pm", TRUE), raised |-> "no"]
             ELSE [t |-> Wrote(t, "pm", FALSE), raised |-> "err"]
    ELSE [t |-> IdleTask, raised |-> "no"]
MgrSend(id) ==
    /\ LET r == SendPersonalMessage(active_connections, id)
       IN  ev' = <<Called("send_personal_message", id, r.t, r.raised)>>
    /\ UNCHANGED <<mgrvars, sock>>
    /\ Quiet

\* broadcast(message) with ex = NoId, broadcast_to_others(message, ex).
MgrBroadcast(ex) ==
    /\ LET msg == [type |-> "text", data |-> EmptyDict]
           r == RunLoop(BeginBroadcast(IdleTask, active_connections, msg, ex), Mgr)
       IN  /\ SetMgr(r.m)
           /\ ev' = <<Called("broadcast", ex, r.t, "no")>>
    /\ UNCHANGED sock
    /\ Quiet

NextMgr ==
    \/ \E ws \in Socks, id \in ClientIds : MgrConnect(ws, id)
    \/ \E ws \in Socks : MgrBreak(ws)
    \/ \E id \in ClientIds : MgrDisconnect(id)
    \/ \E id \in ClientIds, g \in Guilds : MgrJoinGuild(id, g)
    \/ \E id \in ClientIds, g \in Guilds : MgrLeaveGuild(id, g)
    \/ \E id \in ClientIds : MgrJoinCity(id)
    \/ \E id \in ClientIds : MgrLeaveCity(id)
    \/ \E id \in ClientIds, data \in StoreData : MgrStore(id, data)
    \/ \E id \in ClientIds : MgrSend(id)
    \/ \E ex \in ClientIds \cup {NoId} : MgrBroadcast(ex)

SpecMgr == Init /\ [][NextMgr]_vars

\* ------------------------------------------ room broadcasts (SpecRoom)
\* broadcast_to_city and broadcast_to_guild have no caller in the
\* repository; here one coroutine calls them, one call after the other,
\* while other calls of the manager are made between its awaits.
Caller == 1
City == "city"
Rooms == {City} \cup Guilds
\* The list object the for statement iterates: self.city_presence, or
\* self.guild_channels[guild_id] (line 93: no loop for an unknown guild).
RoomList(m, room) ==
    IF room = City THEN m.cp
    ELSE IF DictHas(m.gc, room) THEN DictVal(m.gc, room) ELSE <<>>
\* for client_id in <list> (lines 94, 99): the iterator keeps a position
\* into the list itself and fetches the element there now. An id without a
\* registry entry is passed without an await (line 56); pc = "ret" when the
\* position is past the end of the list.
RoomFrom(t, m) ==
    LET l == RoomList(m, t.room)
        hits == {i \in t.idx..Len(l) : DictHas(m.ac, l[i])}
    IN  IF hits = {} THEN [t EXCEPT !.pc = "ret", !.cur = NoEntry]
        ELSE LET i == CHOOSE h \in hits : \A k \in hits : h <= k
             IN  [t EXCEPT !.pc = "room", !.idx = i + 1,
                           !.cur = [k |-> l[i], v |-> DictVal(m.ac, l[i])]]
RoomOp(room) == IF room = City THEN "broadcast_to_city" ELSE "broadcast_to_guild"
RoomOps == {"broadcast_to_city", "broadcast_to_guild"}
\* The calling coroutine c after its call reached state t1.
RoomStep(c, t1, r) ==
    IF t1.pc = "room"
    THEN task' = [task EXCEPT ![c] = t1] /\ ev' = <<>>
    ELSE /\ task' = [task EXCEPT ![c] = IdleTask]
         /\ ev' = <<Called(RoomOp(t1.room), t1.room, t1, r)>>

\* broadcast_to_city(message) / broadcast_to_guild(guild_id, message) up to
\* the first await.
RoomBegin(c, room) ==
    /\ task[c].pc = "idle"
    /\ frames < MaxFrames
    /\ frames' = frames + 1
    /\ LET t0 == [IdleTask EXCEPT !.kind = "room", !.room = room, !.idx = 1,
                                  !.msg = [type |-> "room", data |-> EmptyDict],
                                  !.start = Mgr]
       IN  RoomStep(c, RoomFrom(t0, Mgr), "no")
    /\ UNCHANGED <<mgrvars, sock, inbox>>

\* The write inside send_personal_message ends. A failure is raised through
\* send_personal_message and the for loop to the caller.
RoomWrite(c) ==
    /\ task[c].pc = "room"
    /\ Completes(task[c].cur.v)
    /\ LET t == task[c]
       IN  \/ /\ WriteOk(t.cur.v)
              /\ RoomStep(c, RoomFrom(Wrote(t, "room", TRUE), Mgr), "no")
           \/ /\ ~WriteOk(t.cur.v)
              /\ \E x \in SendErrors :
                    RoomStep(c, [Wrote(t, "room", FALSE) EXCEPT !.pc = "ret"], x)
    /\ UNCHANGED <<mgrvars, sock, frames, inbox>>

\* No room broadcast is suspended.
NoRoomCall == task[Caller].pc # "room"
RoomConnect(ws, id) == NoRoomCall /\ MgrConnect(ws, id)
RoomJoinGuild(id, g) == NoRoomCall /\ MgrJoinGuild(id, g)
RoomJoinCity(id) == NoRoomCall /\ MgrJoinCity(id)
\* Clients connect and join rooms; then rooms are broadcast to while
\* sockets break and clients leave or are disconnected.
NextRoom ==
    \/ \E ws \in Socks, id \in ClientIds : RoomConnect(ws, id)
    \/ \E ws \in Socks : MgrBreak(ws)
    \/ \E id \in ClientIds : MgrDisconnect(id)
    \/ \E id \in ClientIds, g \in Guilds : RoomJoinGuild(id, g)
    \/ \E id \in ClientIds, g \in Guilds : MgrLeaveGuild(id, g)
    \/ \E id \in ClientIds : RoomJoinCity(id)
    \/ \E id \in ClientIds : MgrLeaveCity(id)
    \/ \E room \in Rooms : RoomBegin(Caller, room)
    \/ RoomWrite(Caller)
SpecRoom == Init /\ [][NextRoom]_vars

\* ------------------------------------------------------------ properties
Absent(m, id) ==
    /\ ~DictHas(m.ac, id)
    /\ ~DictHas(m.pd, id)
    /\ ~ListHas(m.cp, id)
    /\ \A i \in 1..Len(m.gc) : ~ListHas(m.gc[i].v, id)
InEveryContainer(m, id) ==
    /\ DictHas(m.ac, id)
    /\ DictHas(m.pd, id)
    /\ ListHas(m.cp, id)
    /\ \E i \in 1..Len(m.gc) : ListHas(m.gc[i].v, id)
\* The writes of phase ph in a call's record that reached socket ws.
Got(e, ph, ws) ==
    {i \in 1..Len(e.sent) : e.sent[i].ph = ph /\ e.sent[i].to = ws /\ e.sent[i].ok}
EntryIn(ac, x) == DictHas(ac, x.k) /\ DictVal(ac, x.k) = x.v

\* C1: right after disconnect(id) returns, id is no key of
\* active_connections or player_data and is in neither city_presence nor any
\* guild channel's member list, whatever calls came before.
C1_DisconnectPurges ==
    \A i \in 1..Len(ev) : ev[i].op = "disconnect" => Absent(Mgr, ev[i].id)
C1_Witness ==
    \E i \in 1..Len(ev) :
        ev[i].op = "disconnect" /\ InEveryContainer(ev[i].start, ev[i].id)

\* C2: at most one live connection (open, its endpoint still reading) per
\* client id, in every reachable state.
LiveConn(s) == sock[s].st = "open" /\ task[s].pc \in {"recv", "catchup", "bcast"}
C2_OneLivePerId ==
    \A s, u \in Socks : (s # u /\ LiveConn(s) /\ LiveConn(u)) => Cid(s) # Cid(u)

\* C3: every client id with a presence record in player_data is a key of
\* active_connections, in every reachable state.
C3_PresenceImpliesRegistered ==
    DictKeys(player_data) \subseteq DictKeys(active_connections)

\* C4: every client id in city_presence or in a guild channel's member list
\* is a key of active_connections, in every reachable state.
C4_RoomsImplyRegistered ==
    /\ \A i \in 1..Len(city_presence) : DictHas(active_connections, city_presence[i])
    /\ \A i \in 1..Len(guild_channels) : \A j \in 1..Len(guild_channels[i].v) :
            DictHas(active_connections, guild_channels[i].v[j])

\* C5: after broadcast / broadcast_to_others returns, every target whose
\* write failed has no registry entry, no presence record and no room
\* membership.
C5_FailedTargetFullyEvicted ==
    \A i \in 1..Len(ev) : ev[i].op = "broadcast" =>
        \A j \in 1..Len(ev[i].sent) :
            ~ev[i].sent[j].ok => Absent(Mgr, Cid(ev[i].sent[j].to))

\* C6: when broadcast / broadcast_to_others returns, every entry of the
\* call-time copy that is not the excluded id and is still registered has
\* been written to exactly once, whatever writes to other entries failed;
\* and the call has not raised.
C6_BroadcastIsolation ==
    \A i \in 1..Len(ev) :
        /\ \A j \in 1..Len(ev[i].snap) :
              (ev[i].snap[j].k # ev[i].excl /\ EntryIn(active_connections, ev[i].snap[j]))
                  => Cardinality(Got(ev[i], "bc", ev[i].snap[j].v)) = 1
        /\ (ev[i].op = "handled" /\ ev[i].kind \in {"move", "chat", "text", "left"})
              => ev[i].raised = "no"
C6_Witness ==
    \E i \in 1..Len(ev) : \E j, k \in 1..Len(ev[i].sent) :
        /\ j < k
        /\ ev[i].sent[j].ph = "bc" /\ ~ev[i].sent[j].ok
        /\ ev[i].sent[k].ph = "bc" /\ ev[i].sent[k].ok

\* C7: send_personal_message never raises: a failed write unregisters the
\* target and the call returns normally.
C7_SendNeverRaises ==
    \A i \in 1..Len(ev) : ev[i].op = "send_personal_message" =>
        /\ ev[i].raised = "no"
        /\ \A j \in 1..Len(ev[i].sent) :
              ~ev[i].sent[j].ok => ~DictHas(active_connections, ev[i].id)

\* C8: disconnect(id) called again right after disconnect(id) raises nothing
\* and changes none of the four containers; nor does disconnect raise for an
\* id that has no entry anywhere.
IsDisconnect(e, id) == Len(e) = 1 /\ e[1].op = "disconnect" /\ e[1].id = id
C8_DisconnectIdempotent ==
    [][\A id \in ClientIds :
          /\ IsDisconnect(ev', id) => ev'[1].raised = "no"
          /\ (IsDisconnect(ev, id) /\ IsDisconnect(ev', id)) => mgrvars' = mgrvars]_vars
C8_Witness ==
    \E id \in ClientIds :
        /\ IsDisconnect(ev, id)
        /\ Absent(ev[1].start, id)
        /\ \E s \in Socks : Cid(s) = id

\* The sockets registered when a spawn arrived, under another id than the
\* sender's, whose client had a presence record (had spawned).
SpawnedPeers(e) ==
    {d \in Socks : /\ Cid(d) # e.id
                   /\ EntryIn(e.start.ac, [k |-> Cid(d), v |-> d])
                   /\ DictHas(e.start.pd, Cid(d))}
IsJoinedAbout(m, id) == m.type = "player_joined" /\ About(m) = id
\* The catch-up writes of a call's record that were delivered, about id.
CaughtUp(e, id) ==
    {i \in 1..Len(e.sent) :
        e.sent[i].ph = "cu" /\ e.sent[i].ok /\ IsJoinedAbout(e.sent[i].msg, id)}

\* C9: when the handling of a spawn of client C ends, every other client
\* that had spawned before and is still connected has received exactly one
\* "joined" message about C, and none went to C.
C9_SpawnAnnounced ==
    \A i \in 1..Len(ev) : (ev[i].op = "handled" /\ ev[i].kind = "spawn") =>
        /\ \A d \in SpawnedPeers(ev[i]) :
              EntryIn(active_connections, [k |-> Cid(d), v |-> d]) =>
                  /\ Cardinality(Got(ev[i], "bc", d)) = 1
                  /\ \A j \in Got(ev[i], "bc", d) : IsJoinedAbout(ev[i].sent[j].msg, ev[i].id)
        /\ \A j \in 1..Len(ev[i].sent) :
              IsJoinedAbout(ev[i].sent[j].msg, ev[i].id) => Cid(ev[i].sent[j].to) # ev[i].id

\* C10: when the handling of a spawn of client C ends, C has received
\* exactly one "joined" message for each other client that had spawned and
\* was connected, carrying the payload stored for it, and none about a
\* client that was not connected.
C10_CatchUpComplete ==
    \A i \in 1..Len(ev) : (ev[i].op = "handled" /\ ev[i].kind = "spawn") =>
        /\ \A id \in ClientIds \ {ev[i].id} :
              (DictHas(ev[i].start.pd, id) /\ DictHas(ev[i].start.ac, id)) =>
                  /\ Cardinality(CaughtUp(ev[i], id)) = 1
                  /\ \A j \in CaughtUp(ev[i], id) :
                        ev[i].sent[j].g.fresh /\ Cid(ev[i].sent[j].to) = ev[i].id
        /\ \A j \in 1..Len(ev[i].sent) :
              (ev[i].sent[j].ph = "cu" /\ ev[i].sent[j].ok) =>
                  DictHas(ev[i].start.ac, About(ev[i].sent[j].msg))

\* An envelope of kind t built from client id's message with payload d.
IsEnvelopeOf(m, t, id, D) ==
    /\ m.type = t
    /\ \E d \in D :
          /\ DOMAIN m.data = (DOMAIN d) \cup {"client_id"}
          /\ m.data["client_id"] = id
          /\ \A key \in DOMAIN d : m.data[key] = d[key]
\* Every entry of the registry copy of call e that is still registered and
\* is not excluded got exactly one write of the call.
DeliveredOnce(e) ==
    \A j \in 1..Len(e.snap) :
        (e.snap[j].k # e.excl /\ EntryIn(active_connections, e.snap[j]))
            => Cardinality(Got(e, "bc", e.snap[j].v)) = 1

\* C11: when the handling of a move of client C ends, every other client
\* registered when the move arrived, and still registered, has received
\* exactly one "moved" message carrying C's id and the move's data; every
\* message the move produced is that one, and none went to C.
C11_MoveDelivered ==
    \A i \in 1..Len(ev) : (ev[i].op = "handled" /\ ev[i].kind = "move") =>
        /\ ev[i].raised = "no"
        /\ ev[i].excl = ev[i].id
        /\ DeliveredOnce(ev[i])
        /\ \A j \in 1..Len(ev[i].sent) :
              /\ IsEnvelopeOf(ev[i].sent[j].msg, "player_moved", ev[i].id,
                              MoveData \cup ForgedData)
              /\ ev[i].sent[j].to # ev[i].sock
              /\ Cid(ev[i].sent[j].to) # ev[i].id

\* C12: a move of a client that has a presence record merges into it: after
\* the move every key of the move's data has the new value, every other key
\* of the record keeps its value, and the record has no other key.
C12_MoveMerges ==
    [][\A s \in Socks, d \in RichData :
          (RecvMove(s, d) /\ DictHas(player_data, Cid(s))) =>
              /\ DictHas(player_data', Cid(s))
              /\ LET old == DictVal(player_data, Cid(s))
                     new == DictVal(player_data', Cid(s))
                 IN  /\ DOMAIN new = (DOMAIN old) \cup (DOMAIN d)
                     /\ \A key \in DOMAIN d : new[key] = d[key]
                     /\ \A key \in (DOMAIN old) \ (DOMAIN d) : new[key] = old[key]]_vars
\* A move under way whose record holds the move's keys and a key the move
\* did not carry.
C12_Witness ==
    \E s \in Socks :
        /\ task[s].kind = "move" /\ task[s].pc = "bcast"
        /\ DictHas(player_data, Cid(s))
        /\ LET rec == DictVal(player_data, Cid(s))
               md == task[s].msg.data
           IN  /\ (DOMAIN rec) \ (DOMAIN md) # {}
               /\ (DOMAIN md) \ {"client_id"} # {}
               /\ \A key \in (DOMAIN md) \ {"client_id"} :
                     key \in DOMAIN rec /\ rec[key] = md[key]

\* C13: a move of a connected client that has no presence record creates
\* one, equal to the move's data.
C13_MoveBeforeSpawnPuts ==
    [][\A s \in Socks, d \in RichData :
          (RecvMove(s, d) /\ ~DictHas(player_data, Cid(s))) =>
              /\ DictHas(player_data', Cid(s))
              /\ DictVal(player_data', Cid(s)) = d]_vars

\* C20: a spawn of client C with data d leaves player_data[C] equal to d,
\* whatever record C had before.
C20_SpawnReplaces ==
    [][\A s \in Socks, d \in RichData :
          RecvSpawn(s, d) =>
              /\ DictHas(player_data', Cid(s))
              /\ DictVal(player_data', Cid(s)) = d]_vars
\* A spawn under way, of a client whose earlier record had a key that the
\* record now stored lacks.
C20_Witness ==
    \E s \in Socks :
        /\ task[s].kind = "spawn" /\ task[s].pc \in {"catchup", "bcast"}
        /\ task[s].own.live
        /\ DictHas(task[s].start.pd, Cid(s)) /\ DictHas(player_data, Cid(s))
        /\ (DOMAIN DictVal(task[s].start.pd, Cid(s)))
               \ (DOMAIN DictVal(player_data, Cid(s))) # {}

\* Every entry of the registry copy of call e that is still registered got
\* exactly one write of the call.
DeliveredAll(e) ==
    \A j \in 1..Len(e.snap) :
        EntryIn(active_connections, e.snap[j])
            => Cardinality(Got(e, "bc", e.snap[j].v)) = 1
ChatDelivered ==
    \A i \in 1..Len(ev) : (ev[i].op = "handled" /\ ev[i].kind = "chat") =>
        /\ ev[i].raised = "no"
        /\ DeliveredAll(ev[i])
        /\ \A j \in 1..Len(ev[i].sent) :
              IsEnvelopeOf(ev[i].sent[j].msg, "chat_message", ev[i].id,
                           ChatData \cup ForgedData)
\* The steps of the handling of a chat message of socket s.
ChatStep(s) ==
    \/ \E d \in ChatData \cup ForgedData : RecvChat(s, d)
    \/ task[s].kind = "chat" /\ BcastSend(s)

\* C14: when the handling of a chat message of client C ends, every client
\* registered when it arrived, and still registered, C included, has received
\* exactly one chat message carrying C's id and the chat's data; and no step
\* of the handling changes player_data.
C14_ChatEchoed ==
    /\ []ChatDelivered
    /\ [][\A s \in Socks : ChatStep(s) => player_data' = player_data]_vars

SameText(m, id) == m = LegacyText(id)
TextDelivered ==
    \A i \in 1..Len(ev) : (ev[i].op = "handled" /\ ev[i].kind = "text") =>
        /\ ev[i].raised = "no"
        /\ task[ev[i].sock].pc = "recv"
        /\ DeliveredAll(ev[i])
        /\ \A j \in 1..Len(ev[i].sent) : SameText(ev[i].sent[j].msg, ev[i].id)
\* The steps of the handling of an undecodable frame of socket s.
TextStep(s) ==
    \/ RecvText(s)
    \/ task[s].kind = "text" /\ BcastSend(s)
OwnEntry(s) == [k |-> Cid(s), v |-> s]

\* C15: when the handling of an undecodable frame of client C ends, every
\* client registered when it arrived, and still registered, C included, has
\* received exactly one text naming C, nothing was raised and C's endpoint is
\* back at reading; no step of the handling changes player_data,
\* guild_channels or city_presence, or removes the registry entry of C while
\* C's peer is there.
C15_BadJsonBroadcast ==
    /\ []TextDelivered
    /\ [][\A s \in Socks : TextStep(s) =>
              /\ <<player_data, guild_channels, city_presence>>' =
                     <<player_data, guild_channels, city_presence>>
              /\ (EntryIn(active_connections, OwnEntry(s)) /\ sock[s].st = "open")
                     => EntryIn(active_connections', OwnEntry(s))]_vars
C15_Witness ==
    \E i \in 1..Len(ev) :
        /\ ev[i].op = "handled" /\ ev[i].kind = "text"
        /\ EntryIn(active_connections, OwnEntry(ev[i].sock))
        /\ Got(ev[i], "bc", ev[i].sock) # {}
        /\ \E d \in Socks \ {ev[i].sock} : Got(ev[i], "bc", d) # {}
        /\ player_data # <<>>

\* C16: a frame that is JSON but no {type, data} envelope is not fatal: its
\* handling raises nothing out of the read loop, and the sender's endpoint
\* is back at reading with its registry entry in place.
C16_MalformedNonFatal ==
    \A i \in 1..Len(ev) : (ev[i].op = "handled" /\ ev[i].kind = "malformed") =>
        /\ ev[i].raised = "no"
        /\ task[ev[i].sock].pc = "recv"
        /\ sock[ev[i].sock].st = "open"

OtherSilent ==
    \A i \in 1..Len(ev) : (ev[i].op = "handled" /\ ev[i].kind = "other") =>
        /\ ev[i].raised = "no"
        /\ ev[i].sent = <<>>
        /\ task[ev[i].sock].pc = "recv"

\* C17: a player_disconnect message, or one of an unknown or missing type,
\* changes none of active_connections, player_data, guild_channels and
\* city_presence, writes to no socket and raises nothing; the sender's
\* socket stays as it was and its endpoint goes back to reading.
C17_OtherKindsNoOp ==
    /\ []OtherSilent
    /\ [][\A s \in Socks : RecvOther(s) =>
              /\ mgrvars' = mgrvars
              /\ sock' = sock
              /\ \A u \in Socks \ {s} : task'[u] = task[u]]_vars
\* Such a message has been handled while its sender and another client were
\* registered and a presence record was stored.
C17_Witness ==
    \E i \in 1..Len(ev) :
        /\ ev[i].op = "handled" /\ ev[i].kind = "other"
        /\ EntryIn(active_connections, OwnEntry(ev[i].sock))
        /\ Len(active_connections) > 1
        /\ player_data # <<>>

\* The record e is the last of its endpoint: the player_left broadcast has
\* returned, or an exception has left websocket_endpoint.
EndpointOver(e) == e.op = "handled" /\ (e.kind = "left" \/ e.raised = "err")
\* The sockets of other clients that were registered when the endpoint of e
\* began to end and still are.
Remaining(e) ==
    {d \in Socks :
        /\ Cid(d) # e.id
        /\ EntryIn(active_connections, OwnEntry(d))
        /\ e.kind = "left" => \E j \in 1..Len(e.snap) : e.snap[j] = OwnEntry(d)}
IsLeftAbout(m, id) == m.type = "player_left" /\ About(m) = id

\* C18: when the endpoint of client X is over, every other client that was
\* registered when it began to end, and still is, has been sent a
\* "player_left" message carrying client_id X, and none was sent to X.
C18_LeftAnnounced ==
    \A i \in 1..Len(ev) : EndpointOver(ev[i]) =>
        /\ \A d \in Remaining(ev[i]) :
              \E j \in Got(ev[i], "bc", d) : IsLeftAbout(ev[i].sent[j].msg, ev[i].id)
        /\ \A j \in 1..Len(ev[i].sent) :
              IsLeftAbout(ev[i].sent[j].msg, ev[i].id) => Cid(ev[i].sent[j].to) # ev[i].id

\* The read loop of socket s has ended: websocket_endpoint is in its except
\* branch or over.
LoopEnded(s) == Over(task[s]) \/ task[s].kind = "left"

\* C19: once the read loop of a connection has ended, however it ended, its
\* client has no registry entry, no presence record and no room membership.
C19_CleanupOnAnyEnd ==
    \A s \in Socks : LoopEnded(s) => Absent(Mgr, Cid(s))

\* The outbound kind that mirrors an inbound one.
Mirrored(mt) ==
    CASE mt = "player_spawn" -> "player_joined"
      [] mt = "player_spawn_3d" -> "player_joined_3d"
      [] mt = "player_move" -> "player_moved"
      [] mt = "player_move_3d" -> "player_moved_3d"
      [] OTHER -> "none"

\* C21: every message written while handling a spawn or move message, the
\* catch-up messages included, has the kind that mirrors the inbound one:
\* player_joined for player_spawn, player_joined_3d for player_spawn_3d,
\* player_moved for player_move, player_moved_3d for player_move_3d.
C21_KindMirrorsVariant ==
    \A i \in 1..Len(ev) :
        (ev[i].op = "handled" /\ ev[i].kind \in {"spawn", "move"}) =>
            /\ ev[i].mt \in {"player_spawn", "player_spawn_3d",
                              "player_move", "player_move_3d"}
            /\ (ev[i].kind = "spawn") =
                  (ev[i].mt \in {"player_spawn", "player_spawn_3d"})
            /\ \A j \in 1..Len(ev[i].sent) :
                  ev[i].sent[j].msg.type = Mirrored(ev[i].mt)
\* A 3-D spawn has been handled with a catch-up message and an announcement
\* delivered.
C21_Witness ==
    \E i \in 1..Len(ev) :
        /\ ev[i].op = "handled" /\ ev[i].mt = "player_spawn_3d"
        /\ \E j, k \in 1..Len(ev[i].sent) :
              /\ ev[i].sent[j].ph = "cu" /\ ev[i].sent[j].ok
              /\ ev[i].sent[k].ph = "bc" /\ ev[i].sent[k].ok

\* C22: every joined, moved and chat envelope broadcast for a message of
\* client C has data.client_id equal to C's connection id, whatever the
\* payload of the message, a payload with a client_id key included.
C22_ClientIdIsSenders ==
    \A i \in 1..Len(ev) :
        (ev[i].op = "handled" /\ ev[i].kind \in {"spawn", "move", "chat"}) =>
            \A j \in 1..Len(ev[i].sent) :
                ev[i].sent[j].ph = "bc" => About(ev[i].sent[j].msg) = ev[i].id

Numbered(e) == e.msg.type \in {"chat_message", "player_moved"}
C29_NoGhostAfterLeft ==
    \A d \in Socks : \A x \in ClientIds : \A i, j \in 1..Len(inbox[d]) :
        (i < j /\ IsLeftAbout(inbox[d][i].msg, x)) => ~IsJoinedAbout(inbox[d][j].msg, x)

\* What the manager holds about client y: its registry entry, its presence
\* record, and whether it is in the city list and in each guild channel.
StateOf(m, y) ==
    [ac |-> IF DictHas(m.ac, y) THEN <<DictVal(m.ac, y)>> ELSE <<>>,
     pd |-> IF DictHas(m.pd, y) THEN <<DictVal(m.pd, y)>> ELSE <<>>,
     cp |-> ListHas(m.cp, y),
     gc |-> [i \in 1..Len(m.gc) |-> [k |-> m.gc[i].k, v |-> ListHas(m.gc[i].v, y)]]]
\* C30: right after disconnect(x) returns, every client y other than x has
\* the registry entry, the presence record, the city membership and the
\* membership of every guild channel it had when the call began.
C30_DisconnectTouchesOnlyOwn ==
    \A i \in 1..Len(ev) : ev[i].op = "disconnect" =>
        \A y \in ClientIds \ {ev[i].id} : StateOf(Mgr, y) = StateOf(ev[i].start, y)
C30_Witness ==
    \E i \in 1..Len(ev) :
        /\ ev[i].op = "disconnect"
        /\ InEveryContainer(ev[i].start, ev[i].id)
        /\ \E y \in ClientIds \ {ev[i].id} : InEveryContainer(ev[i].start, y)

\* C28: while connection u is the one registered under its id and its peer
\* is open, no step of another connection (the close of an earlier
\* connection of the same id, a failed write to one) removes the id from
\* active_connections or its record from player_data.
C28_RemovedOnlyByOwner ==
    [][\A u \in Socks :
          (/\ EntryIn(active_connections, OwnEntry(u))
           /\ LiveConn(u) /\ sock'[u] = sock[u] /\ task'[u] = task[u])
             => /\ DictHas(active_connections', Cid(u))
                /\ DictHas(player_data, Cid(u)) => DictHas(player_data', Cid(u))]_vars

\* The coroutine of s is handling a spawn, move or chat message and its next
\* write goes to a connection of another client whose peer is gone.
FailsOnAnother(s) ==
    /\ task[s].pc \in {"catchup", "bcast"}
    /\ task[s].kind \in {"spawn", "move", "chat"}
    /\ task[s].cur.k # Cid(s)
    /\ ~WriteOk(task[s].cur.v)
\* C25: when a write made for a spawn, move or chat message of client C
\* fails on a connection of another client, nothing is raised in C's
\* handler: it goes on to its next write or returns to receive_text, C's
\* socket stays open and C's registry entry stays.
C25_FailureNotSurfaced ==
    [][\A s \in Socks :
          (FailsOnAnother(s) /\ task'[s].sent # task[s].sent)
             => /\ task'[s].pc \in {"bcast", "recv"}
                /\ \A i \in 1..Len(ev') : ev'[i].raised = "no"
                /\ sock'[s] = sock[s]
                /\ EntryIn(active_connections, OwnEntry(s))
                      => EntryIn(active_connections', OwnEntry(s))]_vars
C25_Witness ==
    \E i \in 1..Len(ev) :
        /\ ev[i].op = "handled" /\ ev[i].kind \in {"spawn", "move", "chat"}
        /\ ev[i].raised = "no"
        /\ \E j \in 1..Len(ev[i].sent) :
              ~ev[i].sent[j].ok /\ Cid(ev[i].sent[j].to) # ev[i].id
        /\ task[ev[i].sock].pc = "recv"
        /\ WriteOk(ev[i].sock)
        /\ EntryIn(active_connections, OwnEntry(ev[i].sock))

\* The sockets call record e wrote to successfully that were registered
\* under id.
RoomGot(e, id) == {j \in 1..Len(e.sent) : e.sent[j].ok /\ Cid(e.sent[j].to) = id}
\* A room broadcast newly suspended on a write.
RoomWrites(c) ==
    /\ task'[c].pc = "room"
    /\ task[c].pc = "room" => task'[c].sent # task[c].sent
\* C26: broadcast_to_guild and broadcast_to_city begin a write only to a
\* client that is then in the room's list; the call never raises, and when
\* the room and the registry are the same at its return as at the call,
\* every registered member has been written to once, whether or not
\* another member's write failed.
C26_RoomIsolation ==
    /\ [][\A c \in Socks : RoomWrites(c) =>
              ListHas(RoomList(Mgr', task'[c].room), task'[c].cur.k)]_vars
    /\ [](\A i \in 1..Len(ev) : ev[i].op \in RoomOps =>
              /\ ev[i].raised = "no"
              /\ (/\ RoomList(Mgr, ev[i].id) = RoomList(ev[i].start, ev[i].id)
                  /\ active_connections = ev[i].start.ac)
                    => \A x \in ClientIds :
                          (ListHas(RoomList(Mgr, ev[i].id), x) /\ DictHas(active_connections, x))
                             => Cardinality({j \in 1..Len(ev[i].sent) :
                                                Cid(ev[i].sent[j].to) = x}) = 1)

\* C27: a room broadcast that returns has delivered the message exactly
\* once to every client that was in the room's list when it was called
\* and is in the list and registered when it returns, whoever left the room
\* or was disconnected while it was suspended.
C27_RoomSnapshot ==
    \A i \in 1..Len(ev) :
        (ev[i].op \in RoomOps /\ ev[i].raised = "no") =>
            \A x \in ClientIds :
                (/\ ListHas(RoomList(ev[i].start, ev[i].id), x)
                 /\ DictHas(ev[i].start.ac, x)
                 /\ ListHas(RoomList(Mgr, ev[i].id), x)
                 /\ DictHas(active_connections, x))
                    => Cardinality(RoomGot(ev[i], x)) = 1

\* The broadcast of s has yet to write to the open socket u, registered
\* under an id the loop will not pass over.
Awaited(s, u) ==
    /\ task[s].pc = "bcast"
    /\ sock[u].st = "open"
    /\ \E i \in 1..Len(task[s].rest) :
          task[s].rest[i].v = u /\ Eligible(active_connections, task[s].rest[i], task[s].excl)
\* C24: a target of a broadcast or broadcast_to_others that the loop has
\* yet to write to is eventually written to, even when the write to an
\* earlier target of the snapshot never completes.
C24_SlowConsumerNoBlock ==
    \A s \in Socks, u \in Socks : Awaited(s, u) ~> ~Awaited(s, u)

====
